---- MODULE Spec2Model ----
(***************************************************************************)
(* Model of django_core_tasks/backends/base.py: BaseTaskBackend.           *)
(*                                                                         *)
(* A backend class (BaseTaskBackend itself, or a subclass that overrides   *)
(* the class attribute supports_defer and/or the methods enqueue and       *)
(* get_result) is instantiated from an options mapping; the instance then  *)
(* validates tasks, and is asked to enqueue tasks and to look up results,  *)
(* either directly or through the asynchronous wrappers aenqueue and       *)
(* aget_result, which hand the synchronous method to sync_to_async with    *)
(* thread_sensitive=True.                                                  *)
(***************************************************************************)
EXTENDS Integers, Sequences, FiniteSets, TLC

VARIABLES
    cls,            \* the backend class: its class attribute and overrides
    backend,        \* None, or Some(instance) once __init__ has succeeded
    ctor,           \* None, or Some(record of the last __init__ call)
    lastValidate,   \* None, or Some(record of the last validate_task call)
    validated,      \* history: the tasks validate_task has accepted so far
    coroutines,     \* per coroutine: its position and its pending call
    queue,          \* calls handed to sync_to_async, not yet started
    running,        \* per thread: the bridged call it is executing, if any
    calls           \* history: the enqueue / get_result calls executed

vars == <<cls, backend, ctor, lastValidate, validated, coroutines, queue,
          running, calls>>

-----------------------------------------------------------------------------
(* Bounds of the model.                                                    *)

\* priorities range over -PriorityRange .. PriorityRange (and None)
PriorityRange == 1
\* at most this many direct enqueue / get_result calls in one behaviour
MaxCalls == 1

-----------------------------------------------------------------------------
(* Python values.                                                          *)

\* Optional values: None is the empty tuple, a present value v is <<v>>.
None == <<>>
Some(v) == <<v>>

\* How a call ends: it returns a value or raises an exception.
Returned(v) == [kind |-> "return", exc |-> "", msg |-> "", value |-> v]
Raised(e, m) == [kind |-> "raise", exc |-> e, msg |-> m, value |-> ""]

\* The callables a Task may wrap.
Funcs == {"module_function", "nested_function", "bound_method"}

\* datetimes, told apart by their utcoffset(): None for a naive one
Datetimes == {[utcoffset |-> None], [utcoffset |-> Some(0)]}

Priorities == {None} \cup {Some(p) : p \in (0 - PriorityRange)..PriorityRange}

RunAfters == {None} \cup {Some(d) : d \in Datetimes}

Tasks == [func : Funcs, priority : Priorities, run_after : RunAfters]

\* Option mappings, as sets of <<key, value>> pairs with distinct keys.
Aliases == {"default", "special"}
Options ==
    {{}} \cup {{<<"ALIAS", a>>} : a \in Aliases}
         \cup {{<<"QUEUES", "q">>}}
         \cup {{<<"ALIAS", a>>, <<"QUEUES", "q">>} : a \in Aliases}

Keys(mapping) == {kv[1] : kv \in mapping}
Lookup(mapping, key) == (CHOOSE kv \in mapping : kv[1] = key)[2]

\* The backend classes: BaseTaskBackend has supports_defer = False and
\* overrides nothing; a subclass may set supports_defer and may implement
\* enqueue and get_result.
BaseTaskBackend == [supports_defer |-> FALSE, implements |-> FALSE]
Classes == [supports_defer : BOOLEAN, implements : BOOLEAN]

-----------------------------------------------------------------------------
(* Helpers the module imports.                                             *)

\* django_core_tasks.utils.is_global_function
is_global_function(func) == func = "module_function"

\* django.utils.timezone.is_aware
is_aware(value) == value.utcoffset # None

-----------------------------------------------------------------------------
(* BaseTaskBackend.__init__                                                *)

init_default_alias(options) ==
    IF "ALIAS" \in Keys(options)
        THEN Returned(Lookup(options, "ALIAS"))
        ELSE Returned("default")

\* the outcome of self.alias = options["ALIAS"]
init(options) ==
    IF "ALIAS" \in Keys(options)
        THEN Returned(Lookup(options, "ALIAS"))
        ELSE Raised("KeyError", "ALIAS")

Construct(options) ==
    /\ backend = None
    /\ ctor' = Some([options |-> options, outcome |-> init(options)])
    /\ backend' = IF init(options).kind = "return"
                      THEN Some([alias |-> init(options).value])
                      ELSE None
    /\ UNCHANGED <<cls, lastValidate, validated, coroutines, queue, running,
                   calls>>

-----------------------------------------------------------------------------
(* BaseTaskBackend.validate_task                                           *)

validate_task_no_function_check(task) ==
    IF task.priority # None /\ task.priority[1] < 1
        THEN Raised("InvalidTaskError", "priority must be positive")
    ELSE IF ~cls.supports_defer /\ task.run_after # None
        THEN Raised("InvalidTaskError", "Backend does not support run_after")
    ELSE IF task.run_after # None /\ ~is_aware(task.run_after[1])
        THEN Raised("InvalidTaskError", "run_after must be an aware datetime")
    ELSE Returned("None")

validate_task_priority_off_by_one(task) ==
    IF ~is_global_function(task.func)
        THEN Raised("InvalidTaskError",
                    "Task function must be a globally importable function")
    ELSE IF task.priority # None /\ task.priority[1] < 0
        THEN Raised("InvalidTaskError", "priority must be positive")
    ELSE IF ~cls.supports_defer /\ task.run_after # None
        THEN Raised("InvalidTaskError", "Backend does not support run_after")
    ELSE IF task.run_after # None /\ ~is_aware(task.run_after[1])
        THEN Raised("InvalidTaskError", "run_after must be an aware datetime")
    ELSE Returned("None")

validate_task_no_aware_check(task) ==
    IF ~is_global_function(task.func)
        THEN Raised("InvalidTaskError",
                    "Task function must be a globally importable function")
    ELSE IF task.priority # None /\ task.priority[1] < 1
        THEN Raised("InvalidTaskError", "priority must be positive")
    ELSE IF ~cls.supports_defer /\ task.run_after # None
        THEN Raised("InvalidTaskError", "Backend does not support run_after")
    ELSE Returned("None")

validate_task_no_defer_check(task) ==
    IF ~is_global_function(task.func)
        THEN Raised("InvalidTaskError",
                    "Task function must be a globally importable function")
    ELSE IF task.priority # None /\ task.priority[1] < 1
        THEN Raised("InvalidTaskError", "priority must be positive")
    ELSE IF task.run_after # None /\ ~is_aware(task.run_after[1])
        THEN Raised("InvalidTaskError", "run_after must be an aware datetime")
    ELSE Returned("None")

validate_task_aware_before_defer(task) ==
    IF ~is_global_function(task.func)
        THEN Raised("InvalidTaskError",
                    "Task function must be a globally importable function")
    ELSE IF task.priority # None /\ task.priority[1] < 1
        THEN Raised("InvalidTaskError", "priority must be positive")
    ELSE IF task.run_after # None /\ ~is_aware(task.run_after[1])
        THEN Raised("InvalidTaskError", "run_after must be an aware datetime")
    ELSE IF ~cls.supports_defer /\ task.run_after # None
        THEN Raised("InvalidTaskError", "Backend does not support run_after")
    ELSE Returned("None")

\* the outcome of self.validate_task(task); self.supports_defer resolves to
\* the class attribute
validate_task(task) ==
    IF ~is_global_function(task.func)
        THEN Raised("InvalidTaskError",
                    "Task function must be a globally importable function")
    ELSE IF task.priority # None /\ task.priority[1] < 1
        THEN Raised("InvalidTaskError", "priority must be positive")
    ELSE IF ~cls.supports_defer /\ task.run_after # None
        THEN Raised("InvalidTaskError", "Backend does not support run_after")
    ELSE IF task.run_after # None /\ ~is_aware(task.run_after[1])
        THEN Raised("InvalidTaskError", "run_after must be an aware datetime")
    ELSE Returned("None")

ValidateTask(task) ==
    /\ backend # None
    /\ lastValidate' = Some([task |-> task, outcome |-> validate_task(task)])
    /\ validated' = IF validate_task(task).kind = "return"
                        THEN validated \cup {task}
                        ELSE validated
    /\ UNCHANGED <<cls, backend, ctor, coroutines, queue, running, calls>>

-----------------------------------------------------------------------------
(* enqueue and get_result, and what self.enqueue / self.get_result resolve  *)
(* to on an instance of cls.                                               *)

ResultIds == {"result-1", "result-2"}

enqueue_returns_result(task, args, kwargs) == Returned("result-1")

\* BaseTaskBackend.enqueue
enqueue(task, args, kwargs) == Raised("NotImplementedError", "")

\* BaseTaskBackend.get_result
get_result(result_id) ==
    Raised("NotImplementedError",
           "This backend does not support retrieving results.")

\* the outcomes an overriding enqueue of a concrete backend may have
subclass_enqueue(task, args, kwargs) ==
    {Returned("result-1"),
     Raised("InvalidTaskError", "rejected by the backend")}

\* the outcomes an overriding get_result of a concrete backend may have
subclass_get_result(result_id) ==
    {Returned(result_id), Raised("ResultDoesNotExist", result_id)}

self_enqueue(task, args, kwargs) ==
    IF cls.implements THEN subclass_enqueue(task, args, kwargs)
                      ELSE {enqueue(task, args, kwargs)}

self_get_result(result_id) ==
    IF cls.implements THEN subclass_get_result(result_id)
                      ELSE {get_result(result_id)}

\* keyword arguments of a call of enqueue, and of a call of get_result
EnqueueKw(task, args, kwargs) ==
    [task |-> Some(task), args |-> Some(args), kwargs |-> Some(kwargs),
     result_id |-> None]
GetResultKw(result_id) ==
    [task |-> None, args |-> None, kwargs |-> None,
     result_id |-> Some(result_id)]

\* the outcomes of calling the bound method fn with keyword arguments kw
Invoke(fn, kw) ==
    IF fn = "enqueue"
        THEN self_enqueue(kw.task[1], kw.args[1], kw.kwargs[1])
        ELSE self_get_result(kw.result_id[1])

-----------------------------------------------------------------------------
(* Threads and coroutines.                                                 *)

EventLoopThread == "event-loop"
\* the one thread that runs thread-sensitive synchronous code
SensitiveThread == "sensitive"
PoolThreads == {"pool-1", "pool-2"}
Threads == {EventLoopThread, SensitiveThread} \cup PoolThreads

\* coroutines of one logical context, each making one asynchronous call
NumCoroutines == 2
Coroutines == 1..NumCoroutines

NoKw == [task |-> None, args |-> None, kwargs |-> None, result_id |-> None]
Idle == [pc |-> "idle", op |-> "", kw |-> NoKw, outcome |-> None]

\* the calls made without the bridge: they name no calling coroutine
DirectCalls == {call \in calls : call.via = None}

-----------------------------------------------------------------------------
(* Direct calls of enqueue and get_result, on the caller's own thread.     *)

Call(fn, kw) ==
    /\ backend # None
    /\ Cardinality(DirectCalls) < MaxCalls
    /\ \E outcome \in Invoke(fn, kw) :
          calls' = calls \cup {[fn |-> fn, kw |-> kw, via |-> None,
                                  thread |-> EventLoopThread,
                                  outcome |-> outcome]}
    /\ UNCHANGED <<cls, backend, ctor, lastValidate, validated, coroutines,
                   queue, running>>

Enqueue(task, args, kwargs) == Call("enqueue", EnqueueKw(task, args, kwargs))

GetResult(result_id) == Call("get_result", GetResultKw(result_id))

-----------------------------------------------------------------------------
(* sync_to_async(fn, thread_sensitive=...) called with kw: it is handed to *)
(* the bridge, the calling coroutine is suspended until it has finished.   *)

sync_to_async(c, fn, thread_sensitive, kw) ==
    queue' = Append(queue, [caller |-> c, fn |-> fn, kw |-> kw,
                            thread_sensitive |-> thread_sensitive])

aenqueue_not_thread_sensitive(c, task, args, kwargs) ==
    sync_to_async(c, "enqueue", FALSE, EnqueueKw(task, args, kwargs))

aenqueue_drops_args(c, task, args, kwargs) ==
    sync_to_async(c, "enqueue", TRUE, EnqueueKw(task, <<>>, {}))

\* BaseTaskBackend.aenqueue
aenqueue(c, task, args, kwargs) ==
    sync_to_async(c, "enqueue", TRUE, EnqueueKw(task, args, kwargs))

\* BaseTaskBackend.aget_result
aget_result(c, result_id) ==
    sync_to_async(c, "get_result", TRUE, GetResultKw(result_id))

Aenqueue(c, task, args, kwargs) ==
    /\ backend # None
    /\ coroutines[c].pc = "idle"
    /\ coroutines' = [coroutines EXCEPT ![c] =
          [pc |-> "awaiting", op |-> "aenqueue",
           kw |-> EnqueueKw(task, args, kwargs), outcome |-> None]]
    /\ aenqueue(c, task, args, kwargs)
    /\ UNCHANGED <<cls, backend, ctor, lastValidate, validated, running,
                   calls>>

AgetResult(c, result_id) ==
    /\ backend # None
    /\ coroutines[c].pc = "idle"
    /\ coroutines' = [coroutines EXCEPT ![c] =
          [pc |-> "awaiting", op |-> "aget_result",
           kw |-> GetResultKw(result_id), outcome |-> None]]
    /\ aget_result(c, result_id)
    /\ UNCHANGED <<cls, backend, ctor, lastValidate, validated, running,
                   calls>>

\* the threads the bridge may run a call on
EligibleThreads(thread_sensitive) ==
    IF thread_sensitive THEN {SensitiveThread} ELSE PoolThreads

\* a free eligible thread takes the oldest pending call
StartCall ==
    /\ queue # <<>>
    /\ \E t \in EligibleThreads(Head(queue).thread_sensitive) :
          /\ running[t] = None
          /\ running' = [running EXCEPT ![t] = Some(Head(queue))]
    /\ queue' = Tail(queue)
    /\ UNCHANGED <<cls, backend, ctor, lastValidate, validated, coroutines,
                   calls>>

\* the call on thread t finishes: its outcome resumes the awaiting coroutine
FinishCall(t) ==
    /\ running[t] # None
    /\ LET call == running[t][1] IN
       \E outcome \in Invoke(call.fn, call.kw) :
          /\ calls' = calls \cup {[fn |-> call.fn, kw |-> call.kw,
                                     via |-> Some(call.caller),
                                     thread |-> t,
                                     outcome |-> outcome]}
          /\ coroutines' = [coroutines EXCEPT ![call.caller] =
                [@ EXCEPT !.pc = "done", !.outcome = Some(outcome)]]
    /\ running' = [running EXCEPT ![t] = None]
    /\ UNCHANGED <<cls, backend, ctor, lastValidate, validated, queue>>

-----------------------------------------------------------------------------
(* Specifications.                                                         *)

Init ==
    /\ cls \in Classes
    /\ backend = None
    /\ ctor = None
    /\ lastValidate = None
    /\ validated = {}
    /\ coroutines = [c \in Coroutines |-> Idle]
    /\ queue = <<>>
    /\ running = [t \in Threads |-> None]
    /\ calls = {}

\* the inputs of a session of calls
SessionOptions == {{<<"ALIAS", "default">>}, {<<"QUEUES", "q">>}}
SessionTasks ==
    {[func |-> "module_function", priority |-> Some(1), run_after |-> None],
     [func |-> "module_function", priority |-> Some(0), run_after |-> None]}
SessionArgs == {<<1>>}
SessionKwargs == {{<<"x", 1>>}}

\* construction and the calls of enqueue and get_result, direct and bridged
NextCalls ==
    \/ \E options \in SessionOptions : Construct(options)
    \/ \E task \in SessionTasks, args \in SessionArgs,
          kwargs \in SessionKwargs : Enqueue(task, args, kwargs)
    \/ \E result_id \in ResultIds : GetResult(result_id)
    \/ \E c \in Coroutines, task \in SessionTasks, args \in SessionArgs,
          kwargs \in SessionKwargs : Aenqueue(c, task, args, kwargs)
    \/ \E c \in Coroutines, result_id \in ResultIds : AgetResult(c, result_id)
    \/ StartCall
    \/ \E t \in Threads : FinishCall(t)

SpecCalls == Init /\ [][NextCalls]_vars

\* every operation of a backend
Next ==
    \/ NextCalls
    \/ \E task \in SessionTasks : ValidateTask(task)

Spec == Init /\ [][Next]_vars

\* construction and validation alone, over every options mapping and task
NextValidate ==
    \/ \E options \in Options : Construct(options)
    \/ \E task \in Tasks : ValidateTask(task)

SpecValidate == Init /\ [][NextValidate]_vars

-----------------------------------------------------------------------------
(* Properties of validate_task, checked under SpecValidate.                *)

Validated == lastValidate # None
VTask == lastValidate[1].task
VOutcome == lastValidate[1].outcome
Rejected == VOutcome.kind = "raise" /\ VOutcome.exc = "InvalidTaskError"
Accepted == VOutcome = Returned("None")

PriorityOk(task) == task.priority = None \/ task.priority[1] >= 1
NaiveRunAfter(task) ==
    task.run_after # None /\ task.run_after[1].utcoffset = None
AwareRunAfter(task) ==
    task.run_after # None /\ task.run_after[1].utcoffset # None

\* C1: a task whose function is not a globally importable function is
\* rejected with InvalidTaskError, whatever its priority and run_after and
\* whatever the backend's supports_defer.
C1_NonGlobalFunctionRejected ==
    (Validated /\ VTask.func # "module_function") => Rejected

C1_Witness ==
    /\ Validated
    /\ VTask.func = "nested_function"
    /\ VTask.priority = Some(1)
    /\ AwareRunAfter(VTask)
    /\ cls.supports_defer
    /\ Rejected

\* C2, as stated: a task with priority < 1 is rejected, and a task with
\* priority >= 1 or without priority passes validate_task.
C2_AsStated ==
    Validated =>
        /\ ~PriorityOk(VTask) => Rejected
        /\ PriorityOk(VTask) => Accepted

\* C2, amended: a task with priority < 1 is rejected; a task with priority
\* >= 1 or without priority is never rejected for its priority, and passes
\* when its function is global and its run_after is absent, or aware on a
\* backend that supports defer.
C2_PriorityRule ==
    Validated =>
        /\ ~PriorityOk(VTask) => Rejected
        /\ PriorityOk(VTask) => VOutcome.msg # "priority must be positive"
        /\ ( /\ PriorityOk(VTask)
             /\ VTask.func = "module_function"
             /\ \/ VTask.run_after = None
                \/ cls.supports_defer /\ AwareRunAfter(VTask) ) => Accepted

C2_Witness ==
    /\ Validated
    /\ VTask.func = "module_function"
    /\ VTask.priority = Some(0)
    /\ VTask.run_after = None
    /\ VOutcome = Raised("InvalidTaskError", "priority must be positive")

\* C3: a task whose run_after is present but naive is rejected with
\* InvalidTaskError, whether supports_defer is True or False.
C3_NaiveRunAfterRejected ==
    (Validated /\ NaiveRunAfter(VTask)) => Rejected

C3_Witness ==
    /\ Validated
    /\ cls.supports_defer
    /\ VTask.func = "module_function"
    /\ VTask.priority = None
    /\ NaiveRunAfter(VTask)
    /\ Rejected

\* C4: on a backend whose supports_defer is False, every task with a
\* run_after is rejected with InvalidTaskError, an aware run_after included.
C4_NoDeferRejectsRunAfter ==
    (Validated /\ ~cls.supports_defer /\ VTask.run_after # None) => Rejected

C4_Witness ==
    /\ Validated
    /\ cls = BaseTaskBackend
    /\ VTask.func = "module_function"
    /\ VTask.priority = Some(1)
    /\ AwareRunAfter(VTask)
    /\ Rejected

\* C10: validate_task returns exactly when the function is global, the
\* priority is None or >= 1, and run_after is None or aware on a backend
\* that supports defer; otherwise it raises InvalidTaskError for the first
\* violated rule in the order function, priority, defer support, awareness.
C10_ExactlyTheRulesInOrder ==
    Validated =>
        LET funcOk == VTask.func = "module_function"
            prioOk == PriorityOk(VTask)
            deferOk == VTask.run_after = None \/ cls.supports_defer
            awareOk == ~NaiveRunAfter(VTask)
            Reports(m) == Rejected /\ VOutcome.msg = m
        IN  /\ Accepted <=> (funcOk /\ prioOk /\ deferOk /\ awareOk)
            /\ ~Accepted => Rejected
            /\ ~funcOk =>
                 Reports("Task function must be a globally importable function")
            /\ (funcOk /\ ~prioOk) => Reports("priority must be positive")
            /\ (funcOk /\ prioOk /\ ~deferOk) =>
                 Reports("Backend does not support run_after")
            /\ (funcOk /\ prioOk /\ deferOk /\ ~awareOk) =>
                 Reports("run_after must be an aware datetime")

C10_Witness ==
    /\ Validated
    /\ ~cls.supports_defer
    /\ VTask.func = "module_function"
    /\ VTask.priority = None
    /\ NaiveRunAfter(VTask)
    /\ VOutcome = Raised("InvalidTaskError",
                         "Backend does not support run_after")

-----------------------------------------------------------------------------
(* Construction, checked under SpecValidate.                               *)

\* C8: constructing from options that hold "ALIAS" succeeds and sets alias
\* to the value stored under "ALIAS", other keys being ignored; constructing
\* from options without "ALIAS" raises KeyError and yields no backend.
C8_AliasFromOptions ==
    ctor # None =>
        LET options == ctor[1].options
            outcome == ctor[1].outcome
        IN  IF \E kv \in options : kv[1] = "ALIAS"
                THEN /\ outcome.kind = "return"
                     /\ backend # None
                     /\ <<"ALIAS", backend[1].alias>> \in options
                ELSE /\ outcome.kind = "raise"
                     /\ outcome.exc = "KeyError"
                     /\ backend = None

C8_Witness ==
    /\ ctor # None
    /\ ctor[1].options = {<<"ALIAS", "special">>, <<"QUEUES", "q">>}
    /\ backend = Some([alias |-> "special"])

-----------------------------------------------------------------------------
(* Properties of the calls, checked under SpecCalls and Spec.              *)

CallsVia(c) == {call \in calls : call.via = Some(c)}
Pending(c) ==
    Cardinality({i \in 1..Len(queue) : queue[i].caller = c})
        + Cardinality({t \in Threads :
                          running[t] # None /\ running[t][1].caller = c})
NotImplemented(outcome) ==
    outcome.kind = "raise" /\ outcome.exc = "NotImplementedError"

\* C5, as stated: a task reaches enqueue or aenqueue only after it has
\* passed validate_task.
C5_OnlyValidatedTasksEnqueued ==
    /\ \A call \in calls :
          call.fn = "enqueue" => call.kw.task[1] \in validated
    /\ \A c \in Coroutines :
          coroutines[c].op = "aenqueue" =>
              coroutines[c].kw.task[1] \in validated

\* C6: aenqueue makes exactly one enqueue call, with the task, args and
\* kwargs it was given, and its outcome, the TaskResult returned or the
\* error raised, is the outcome of that call.
C6_AenqueueIsOneEnqueue ==
    \A c \in Coroutines :
        coroutines[c].op = "aenqueue" =>
            /\ coroutines[c].pc = "awaiting" => CallsVia(c) = {}
            /\ coroutines[c].pc = "done" =>
                  /\ Cardinality(CallsVia(c)) = 1
                  /\ \A call \in CallsVia(c) :
                        /\ call.fn = "enqueue"
                        /\ call.kw = coroutines[c].kw
                        /\ coroutines[c].outcome = Some(call.outcome)

C6_Witness ==
    \E c \in Coroutines :
        /\ coroutines[c].op = "aenqueue"
        /\ coroutines[c].pc = "done"
        /\ coroutines[c].kw.task[1].priority = Some(1)
        /\ coroutines[c].kw.args = Some(<<1>>)
        /\ coroutines[c].outcome = Some(Returned("result-1"))

\* C7: on a class that does not implement them, enqueue and get_result raise
\* NotImplementedError for every input and never return a result, and so
\* aenqueue and aget_result fail with that same error.
C7_BaseRaisesNotImplemented ==
    ~cls.implements =>
        /\ \A call \in calls : NotImplemented(call.outcome)
        /\ \A c \in Coroutines :
              coroutines[c].pc = "done" =>
                  /\ NotImplemented(coroutines[c].outcome[1])
                  /\ \E call \in CallsVia(c) :
                        coroutines[c].outcome = Some(call.outcome)

C7_Witness ==
    /\ cls = BaseTaskBackend
    /\ \E call \in DirectCalls : call.fn = "get_result"
    /\ \E c \in Coroutines :
          /\ coroutines[c].op = "aenqueue"
          /\ coroutines[c].pc = "done"
    /\ \E c \in Coroutines :
          /\ coroutines[c].op = "aget_result"
          /\ coroutines[c].pc = "done"

\* C9: the enqueue and get_result calls made through aenqueue and
\* aget_result all run on the one thread-sensitive thread, never on the
\* event-loop thread nor on another worker, so no two run at the same
\* time, and each calling coroutine stays suspended until its call is over.
C9_ThreadSensitive ==
    /\ \A t \in Threads \ {SensitiveThread} : running[t] = None
    /\ \A call \in calls : call.via # None => call.thread = SensitiveThread
    /\ Cardinality({t \in Threads : running[t] # None}) <= 1
    /\ \A c \in Coroutines :
          Pending(c) = (IF coroutines[c].pc = "awaiting" THEN 1 ELSE 0)

C9_Witness ==
    /\ running[SensitiveThread] # None
    /\ running[SensitiveThread][1].fn = "get_result"
    /\ queue # <<>>
    /\ Head(queue).fn = "enqueue"
    /\ coroutines[Head(queue).caller].pc = "awaiting"
    /\ coroutines[running[SensitiveThread][1].caller].pc = "awaiting"

====
